---- MODULE Spec2Model ----
(***************************************************************************)
(* Model of the subdex pallets: the dex pallet (pallet-subdex) that keeps  *)
(* the pool registry and the bridged-asset ledger, and the bridge pallet   *)
(* (dex-xcmp) that credits and debits the ledger on cross-chain messages.  *)
(*                                                                         *)
(* pallet-subdex/src/lib.rs declares `mod exchange;` and calls the methods *)
(* of Exchange<T>; the file exchange.rs itself is not part of the sources, *)
(* so the Exchange methods below follow sections 4.3 and 4.4 of the        *)
(* specification.  Everything else is translated from the two lib.rs.      *)
(***************************************************************************)
EXTENDS Integers, FiniteSets, Sequences, TLC

\* ------------------------------------------------------------------ bounds
\* The largest value of the balance type (stands for 2^128 - 1).
MaxBalance == 15
\* Balance every endowed account holds of every asset at genesis.
InitialBalance == 3
\* Number of committed calls a behaviour is followed for.
MaxCalls == 2
\* The same in the one-pool specification.
MaxTradeCalls == 3
\* Largest bridged asset id the ordering functions are applied to.
MaxOrderId == 9

\* ------------------------------------------------------------- universe
Accounts == {"alice", "bob"}
\* DexTreasury.dex_account
DexAccount == "dex"
AllAccounts == Accounts \cup {DexAccount}
AssetIds == {1, 2}

MainNetworkCurrency == [tag |-> "MainNetworkCurrency", id |-> 0]
ParachainAsset(id) == [tag |-> "ParachainAsset", id |-> id]
Assets == {MainNetworkCurrency} \cup {ParachainAsset(i) : i \in AssetIds}
IsMain(a) == a.tag = "MainNetworkCurrency"

\* Amounts and share counts a caller passes, and the minimum amounts it asks for.
Amounts == {0, 1, 2}
Mins == {0, 2}

\* Fee rates (FeeRateNominator, FeeRateDenominator) a runtime may configure.
FeeRates == {<<1, 2>>, <<2, 3>>}
\* Treasury fee rates (nominator, denominator); <<0, 0>> is the Default one.
TreasuryRates == {<<0, 0>>, <<1, 1>>}

VARIABLES
    Exchanges,          \* double_map Asset, Asset => Exchange
    AssetBalances,      \* double_map AccountId, AssetId => Balance (rows that exist)
    FreeBalance,        \* T::Currency free balance of the native currency
    DEXTreasury,        \* treasury configuration
    FeeRate,            \* <<T::FeeRateNominator, T::FeeRateDenominator>>
    overflow_checks,    \* build profile: unchecked `-=` / `+=` panic (TRUE) or wrap
    last,               \* the last dispatched call: name, arguments, result
    calls,              \* the number of calls committed so far
    AssetIdByParaAssetId,   \* dex-xcmp: double_map ParaId, AssetId => AssetId
    NextAssetId,            \* dex-xcmp: next internal asset id
    outbox                  \* XCMP messages sent so far, <<para_id, message>>

bridge == <<AssetIdByParaAssetId, NextAssetId, outbox>>
vars == <<Exchanges, AssetBalances, FreeBalance, DEXTreasury, FeeRate, overflow_checks, last, calls, bridge>>
storage == <<Exchanges, AssetBalances, FreeBalance, DEXTreasury>>

\* ------------------------------------------------------- Result<T, E>
Ok(v) == [ok |-> TRUE, val |-> v, err |-> "Ok"]
Err(e) == [ok |-> FALSE, val |-> 0, err |-> e]

\* ----------------------------------------------- checked arithmetic
Floor(a, b) == a \div b
checked_add(a, b) == IF a + b > MaxBalance THEN Err("OverflowOccured") ELSE Ok(a + b)
checked_sub(a, b) == IF b > a THEN Err("UnderflowOccured") ELSE Ok(a - b)
checked_mul(a, b) == IF a * b > MaxBalance THEN Err("OverflowOccured") ELSE Ok(a * b)
checked_div(a, b) == IF b = 0 THEN Err("UnderflowOrOverflowOccured") ELSE Ok(Floor(a, b))
\* Unchecked `a - b` and `a + b` on the unsigned balance type, release build.
wrapping_sub(a, b) == (a - b) % (MaxBalance + 1)
wrapping_add(a, b) == (a + b) % (MaxBalance + 1)

\* ------------------------------------------------ Exchange (exchange.rs)
\* The value of an absent storage entry: the uninitialized pool.
EmptyExchange ==
    [first_asset_pool |-> 0, second_asset_pool |-> 0, invariant |-> 0,
     total_shares |-> 0, shares |-> [a \in {} |-> 0]]

shares_of(ex, who) == IF who \in DOMAIN ex.shares THEN ex.shares[who] ELSE 0

\* Exchange::ensure_launch: a pool can be launched only from the zero state.
ensure_launch(ex) ==
    IF ex.invariant # 0 THEN Err("InvariantNotNull")
    ELSE IF ex.total_shares # 0 THEN Err("TotalSharesNotNull")
    ELSE Ok(0)

\* Exchange::initialize_new: shares issued = amount of the low asset.
initialize_new(first_asset_amount, second_asset_amount, sender) ==
    LET inv == checked_mul(first_asset_amount, second_asset_amount) IN
    IF ~inv.ok THEN Err(inv.err)
    ELSE Ok([exchange |->
                [first_asset_pool |-> first_asset_amount,
                 second_asset_pool |-> second_asset_amount,
                 invariant |-> inv.val,
                 total_shares |-> first_asset_amount,
                 shares |-> [a \in {sender} |-> first_asset_amount]],
             initial_shares |-> first_asset_amount])

\* fee_total = floor(amt_in * FeeRateNominator / FeeRateDenominator)
calculate_fee(amt_in) ==
    LET m == checked_mul(amt_in, FeeRate[1]) IN
    IF ~m.ok THEN Err(m.err) ELSE checked_div(m.val, FeeRate[2])

\* treasury_fee = floor(fee_total * treasury_nominator / treasury_denominator);
\* a treasury with a zero denominator (the Default one) charges nothing.
treasury_enabled == DEXTreasury.treasury_fee_rate_denominator # 0
calculate_treasury_fee(fee_total) ==
    IF ~treasury_enabled THEN Ok(0)
    ELSE LET m == checked_mul(fee_total, DEXTreasury.treasury_fee_rate_nominator) IN
         IF ~m.ok THEN Err(m.err)
         ELSE checked_div(m.val, DEXTreasury.treasury_fee_rate_denominator)

\* The output amount rounded up instead of down: the pool would pay out the
\* fraction of a unit it is owed.
calculate_amount_out_rounded_up(reserve_in, reserve_out, amt_in_net) ==
    LET num == checked_mul(amt_in_net, reserve_out)
        den == checked_add(reserve_in, amt_in_net)
    IN  IF ~num.ok THEN Err(num.err)
        ELSE IF ~den.ok THEN Err(den.err)
        ELSE IF den.val = 0 THEN Err("UnderflowOrOverflowOccured")
        ELSE Ok(Floor(num.val + den.val - 1, den.val))

\* amt_out = floor(amt_in_net * reserve_out / (reserve_in + amt_in_net))
calculate_amount_out(reserve_in, reserve_out, amt_in_net) ==
    LET num == checked_mul(amt_in_net, reserve_out)
        den == checked_add(reserve_in, amt_in_net)
    IN  IF ~num.ok THEN Err(num.err)
        ELSE IF ~den.ok THEN Err(den.err)
        ELSE checked_div(num.val, den.val)

\* Section 4.3: the swap of amt_in into the side holding reserve_in.
calculate_swap(reserve_in, reserve_out, amt_in) ==
    LET fee == calculate_fee(amt_in) IN
    IF ~fee.ok THEN Err(fee.err) ELSE
    LET net == checked_sub(amt_in, fee.val) IN
    IF ~net.ok THEN Err(net.err) ELSE
    LET out == calculate_amount_out(reserve_in, reserve_out, net.val) IN
    IF ~out.ok THEN Err(out.err) ELSE
    LET tfee == calculate_treasury_fee(fee.val) IN
    IF ~tfee.ok THEN Err(tfee.err) ELSE
    LET pool_fee == checked_sub(fee.val, tfee.val) IN
    IF ~pool_fee.ok THEN Err(pool_fee.err) ELSE
    LET grown == checked_add(reserve_in, amt_in) IN
    IF ~grown.ok THEN Err(grown.err) ELSE
    IF out.val >= reserve_out THEN Err("InsufficientPool") ELSE
    Ok([amount |-> out.val,
        new_reserve_in |-> grown.val - tfee.val,
        new_reserve_out |-> reserve_out - out.val,
        treasury_fee |-> tfee.val])

\* Exchange::calculate_first_to_second_asset_swap -> (SwapDelta, treasury_fee_data)
calculate_first_to_second_asset_swap(ex, first_asset_amount) ==
    LET r == calculate_swap(ex.first_asset_pool, ex.second_asset_pool, first_asset_amount) IN
    IF ~r.ok THEN Err(r.err)
    ELSE Ok([amount |-> r.val.amount,
             first_asset_pool |-> r.val.new_reserve_in,
             second_asset_pool |-> r.val.new_reserve_out,
             treasury_fee |-> r.val.treasury_fee])

\* Exchange::calculate_second_to_first_asset_swap: the same with reserves exchanged.
calculate_second_to_first_asset_swap(ex, second_asset_amount) ==
    LET r == calculate_swap(ex.second_asset_pool, ex.first_asset_pool, second_asset_amount) IN
    IF ~r.ok THEN Err(r.err)
    ELSE Ok([amount |-> r.val.amount,
             first_asset_pool |-> r.val.new_reserve_out,
             second_asset_pool |-> r.val.new_reserve_in,
             treasury_fee |-> r.val.treasury_fee])

\* Exchange::ensure_second_asset_amount / ensure_first_asset_amount (slippage).
ensure_second_asset_amount(amount, min_amount) ==
    IF amount < min_amount THEN Err("SecondAssetAmountBelowExpectation") ELSE Ok(0)

ensure_first_asset_amount(amount, min_amount) ==
    IF amount < min_amount THEN Err("FirstAssetAmountBelowExpectation") ELSE Ok(0)

\* update_pools that stores the reserves and keeps the invariant it had.
update_pools_stale_invariant(ex, first_asset_pool, second_asset_pool) ==
    Ok([ex EXCEPT !.first_asset_pool = first_asset_pool,
                  !.second_asset_pool = second_asset_pool])

\* Exchange::update_pools: store the reserves and recompute the invariant.
update_pools(ex, first_asset_pool, second_asset_pool) ==
    LET inv == checked_mul(first_asset_pool, second_asset_pool) IN
    IF ~inv.ok THEN Err(inv.err)
    ELSE Ok([ex EXCEPT !.first_asset_pool = first_asset_pool,
                       !.second_asset_pool = second_asset_pool,
                       !.invariant = inv.val])

\* One side of Exchange::calculate_costs: shares * pool / total_shares.
calculate_cost(pool, shares, total_shares) ==
    LET m == checked_mul(shares, pool) IN
    IF ~m.ok THEN Err(m.err) ELSE Ok(Floor(m.val, total_shares))

\* Exchange::calculate_costs: one function, called by invest and by divest alike.
calculate_costs(ex, shares) ==
    IF ex.total_shares = 0 THEN Err("TotalSharesNotNull") ELSE
    LET c1 == calculate_cost(ex.first_asset_pool, shares, ex.total_shares)
        c2 == calculate_cost(ex.second_asset_pool, shares, ex.total_shares)
    IN  IF ~c1.ok THEN Err(c1.err)
        ELSE IF ~c2.ok THEN Err(c2.err)
        ELSE Ok(<<c1.val, c2.val>>)

\* Exchange::invest
invest(ex, first_asset_cost, second_asset_cost, shares, sender) ==
    IF shares = 0 THEN Err("InvalidShares") ELSE
    LET p1 == checked_add(ex.first_asset_pool, first_asset_cost)
        p2 == checked_add(ex.second_asset_pool, second_asset_cost)
        ts == checked_add(ex.total_shares, shares)
        own == checked_add(shares_of(ex, sender), shares)
    IN  IF ~p1.ok THEN Err(p1.err)
        ELSE IF ~p2.ok THEN Err(p2.err)
        ELSE IF ~ts.ok THEN Err(ts.err)
        ELSE IF ~own.ok THEN Err(own.err)
        ELSE LET inv == checked_mul(p1.val, p2.val) IN
             IF ~inv.ok THEN Err(inv.err)
             ELSE Ok([first_asset_pool |-> p1.val,
                      second_asset_pool |-> p2.val,
                      invariant |-> inv.val,
                      total_shares |-> ts.val,
                      shares |-> [a \in DOMAIN ex.shares \cup {sender} |->
                                    IF a = sender THEN own.val ELSE ex.shares[a]]])

\* Exchange::ensure_burned_shares
ensure_burned_shares(ex, sender, shares_burned) ==
    IF shares_burned = 0 THEN Err("InvalidShares")
    ELSE IF sender \notin DOMAIN ex.shares THEN Err("DoesNotOwnShare")
    ELSE IF ex.shares[sender] < shares_burned THEN Err("InsufficientShares")
    ELSE Ok(0)

\* Exchange::divest
divest(ex, first_asset_cost, second_asset_cost, shares, sender) ==
    LET p1 == checked_sub(ex.first_asset_pool, first_asset_cost)
        p2 == checked_sub(ex.second_asset_pool, second_asset_cost)
        ts == checked_sub(ex.total_shares, shares)
        own == checked_sub(shares_of(ex, sender), shares)
    IN  IF ~p1.ok THEN Err(p1.err)
        ELSE IF ~p2.ok THEN Err(p2.err)
        ELSE IF ~ts.ok THEN Err(ts.err)
        ELSE IF ~own.ok THEN Err(own.err)
        ELSE IF ts.val = 0 THEN Ok(EmptyExchange)
        ELSE Ok([first_asset_pool |-> p1.val,
                 second_asset_pool |-> p2.val,
                 invariant |-> p1.val * p2.val,
                 total_shares |-> ts.val,
                 shares |-> [ex.shares EXCEPT ![sender] = own.val]])

\* ------------------------------------------------- pallet-subdex storage
\* The storage as one value: s.Exchanges, s.AssetBalances, s.FreeBalance; with
\* s.panic, set when an unchecked operation of the call panicked,
\* s.overdrawn, set when the call debited an account more than it held, and
\* s.overflowed, set when it credited an account more than the balance type
\* can hold.
Store(ex, ab, fb) ==
    [Exchanges |-> ex, AssetBalances |-> ab, FreeBalance |-> fb,
     panic |-> FALSE, overdrawn |-> FALSE, overflowed |-> FALSE]

\* Getter `exchanges(first, second)`: an absent entry reads as the default.
exchanges(s, first_asset, second_asset) == s.Exchanges[<<first_asset, second_asset>>]

\* Getter `asset_balances(who, id)`: an absent row reads as zero.
contains_key(s, who, asset_id) == <<who, asset_id>> \in DOMAIN s.AssetBalances
asset_balances(s, who, asset_id) ==
    IF contains_key(s, who, asset_id) THEN s.AssetBalances[<<who, asset_id>>] ELSE 0

\* <AssetBalances<T>>::insert / the write-back of ::mutate
put_balance(s, who, asset_id, value) ==
    [s EXCEPT !.AssetBalances =
        [k \in DOMAIN s.AssetBalances \cup {<<who, asset_id>>} |->
            IF k = <<who, asset_id>> THEN value ELSE s.AssetBalances[k]]]

\* T::Currency::free_balance, ::slash (takes what is there), ::deposit_creating
\* (a deposit that would overflow the balance is dropped).
free_balance(s, who) == s.FreeBalance[who]
currency_slash(s, who, amount) ==
    [s EXCEPT !.FreeBalance[who] = IF amount > @ THEN 0 ELSE @ - amount,
              !.overdrawn = @ \/ amount > s.FreeBalance[who]]
currency_deposit_creating(s, who, amount) ==
    [s EXCEPT !.FreeBalance[who] = IF @ + amount > MaxBalance THEN @ ELSE @ + amount,
              !.overflowed = @ \/ s.FreeBalance[who] + amount > MaxBalance]

ensure_valid_exchange(asset_in, asset_out) ==
    IF IsMain(asset_in) /\ IsMain(asset_out) THEN Err("InvalidExchange")
    ELSE IF ~IsMain(asset_in) /\ ~IsMain(asset_out) /\ asset_in.id = asset_out.id
         THEN Err("InvalidExchange")
    ELSE Ok(0)

slash_asset(s, from, asset, asset_amount) ==
    IF IsMain(asset) THEN currency_slash(s, from, asset_amount)
    ELSE LET total == asset_balances(s, from, asset.id)
             t == [s EXCEPT !.overdrawn = @ \/ asset_amount > total]
         IN  IF asset_amount > total /\ overflow_checks THEN [t EXCEPT !.panic = TRUE]
             ELSE put_balance(t, from, asset.id, wrapping_sub(total, asset_amount))

slash_assets(s, from, first_asset, first_asset_amount, second_asset, second_asset_amount) ==
    slash_asset(slash_asset(s, from, first_asset, first_asset_amount),
                from, second_asset, second_asset_amount)

mint_asset_overwrite(s, to, asset, asset_amount) ==
    IF IsMain(asset) THEN currency_deposit_creating(s, to, asset_amount)
    ELSE put_balance(s, to, asset.id, asset_amount)

mint_asset(s, to, asset, asset_amount) ==
    IF IsMain(asset) THEN currency_deposit_creating(s, to, asset_amount)
    ELSE IF contains_key(s, to, asset.id) THEN
         LET total == asset_balances(s, to, asset.id)
             t == [s EXCEPT !.overflowed = @ \/ total + asset_amount > MaxBalance]
         IN  IF total + asset_amount > MaxBalance /\ overflow_checks THEN [t EXCEPT !.panic = TRUE]
             ELSE put_balance(t, to, asset.id, wrapping_add(total, asset_amount))
    ELSE put_balance(s, to, asset.id, asset_amount)

mint_assets(s, to, first_asset, first_asset_amount, second_asset, second_asset_amount) ==
    mint_asset(mint_asset(s, to, first_asset, first_asset_amount),
               to, second_asset, second_asset_amount)

ensure_exchange_exists(s, first_asset, second_asset) ==
    LET exchange == exchanges(s, first_asset, second_asset) IN
    IF exchange.invariant > 0 THEN Ok(exchange) ELSE Err("ExchangeNotExists")

\* adjust_assets_amount_order that reorders the assets and leaves the
\* amounts where they were passed.
adjust_assets_amount_order_amounts_kept(first_asset, first_asset_amount, second_asset, second_asset_amount) ==
    IF ~IsMain(first_asset) /\ (IsMain(second_asset) \/ first_asset.id > second_asset.id)
    THEN <<second_asset, first_asset_amount, first_asset, second_asset_amount>>
    ELSE <<first_asset, first_asset_amount, second_asset, second_asset_amount>>

adjust_assets_amount_order(first_asset, first_asset_amount, second_asset, second_asset_amount) ==
    IF IsMain(first_asset) /\ ~IsMain(second_asset)
    THEN <<first_asset, first_asset_amount, second_asset, second_asset_amount>>
    ELSE IF ~IsMain(first_asset) /\ IsMain(second_asset)
    THEN <<second_asset, second_asset_amount, first_asset, first_asset_amount>>
    ELSE IF ~IsMain(first_asset) /\ ~IsMain(second_asset) /\ first_asset.id > second_asset.id
    THEN <<second_asset, second_asset_amount, first_asset, first_asset_amount>>
    ELSE <<first_asset, first_asset_amount, second_asset, second_asset_amount>>

\* adjust_assets_order without its third case: two bridged assets are
\* returned in the order they were passed.
adjust_assets_order_bridged_unordered(first_asset, second_asset) ==
    IF IsMain(first_asset) /\ ~IsMain(second_asset)
    THEN <<first_asset, second_asset, FALSE>>
    ELSE IF ~IsMain(first_asset) /\ IsMain(second_asset)
    THEN <<second_asset, first_asset, TRUE>>
    ELSE <<first_asset, second_asset, FALSE>>

adjust_assets_order(first_asset, second_asset) ==
    IF IsMain(first_asset) /\ ~IsMain(second_asset)
    THEN <<first_asset, second_asset, FALSE>>
    ELSE IF ~IsMain(first_asset) /\ IsMain(second_asset)
    THEN <<second_asset, first_asset, TRUE>>
    ELSE IF ~IsMain(first_asset) /\ ~IsMain(second_asset) /\ first_asset.id > second_asset.id
    THEN <<second_asset, first_asset, TRUE>>
    ELSE <<first_asset, second_asset, FALSE>>

\* ensure_exchange_not_exists that lets every pair through.
ensure_exchange_not_exists_any(s, first_asset, second_asset) == Ok(0)

ensure_exchange_not_exists(s, first_asset, second_asset) ==
    LET first_exchange == exchanges(s, first_asset, second_asset) IN
    IF first_exchange.invariant = 0 THEN Ok(0) ELSE Err("ExchangeAlreadyExists")

ensure_sufficient_balance(s, from, asset, amount) ==
    IF IsMain(asset) THEN
        IF amount > free_balance(s, from) THEN Err("InsufficientKsmBalance") ELSE Ok(0)
    ELSE IF asset_balances(s, from, asset.id) >= amount THEN Ok(0)
    ELSE Err("InsufficientOtherAssetBalance")

ensure_sufficient_balances(s, sender, asset_in, asset_in_amount, asset_out, asset_out_amount) ==
    LET r == ensure_sufficient_balance(s, sender, asset_in, asset_in_amount) IN
    IF ~r.ok THEN r ELSE ensure_sufficient_balance(s, sender, asset_out, asset_out_amount)

ensure_can_hold_balance(s, who, asset, amount) ==
    IF IsMain(asset) THEN
        LET r == checked_add(free_balance(s, who), amount) IN
        IF r.ok THEN Ok(0) ELSE Err("OverflowOccured")
    ELSE LET r == checked_add(asset_balances(s, who, asset.id), amount) IN
         IF r.ok THEN Ok(0) ELSE Err("OverflowOccured")

ensure_can_hold_balances(s, who, first_asset, first_asset_amount, second_asset, second_asset_amount) ==
    LET r == ensure_can_hold_balance(s, who, first_asset, first_asset_amount) IN
    IF ~r.ok THEN r ELSE ensure_can_hold_balance(s, who, second_asset, second_asset_amount)

ensure_divest_expectations(first_asset_cost, second_asset_cost, min_first_asset_received, min_second_asset_received) ==
    IF first_asset_cost < min_first_asset_received THEN Err("FirstAssetAmountBelowExpectation")
    ELSE IF second_asset_cost < min_second_asset_received THEN Err("SecondAssetAmountBelowExpectation")
    ELSE Ok(0)

\* An insert that stores the pool under both orders of its pair.
insert_exchange_both_orders(s, first_asset, second_asset, exchange) ==
    [s EXCEPT !.Exchanges[<<first_asset, second_asset>>] = exchange,
              !.Exchanges[<<second_asset, first_asset>>] = exchange]

\* <Exchanges<T>>::insert(first, second, exchange)
insert_exchange(s, first_asset, second_asset, exchange) ==
    [s EXCEPT !.Exchanges[<<first_asset, second_asset>>] = exchange]

\* The outcome of a dispatched call: its result and the storage it leaves.  A
\* failed call leaves the storage it was given; a call that panicked is
\* discarded by the executor together with every write it made.
Fail(s0, e) == [res |-> e, store |-> s0, overdrawn |-> s0.overdrawn, overflowed |-> s0.overflowed]
Done(s0, s) ==
    IF s.panic
    THEN [res |-> "Panic", store |-> s0, overdrawn |-> s.overdrawn, overflowed |-> s.overflowed]
    ELSE [res |-> "Ok", store |-> s, overdrawn |-> s.overdrawn, overflowed |-> s.overflowed]

\* ------------------------------------------------------- dispatchables
\* Phase 2 of each call, the writes below its `== MUTATION SAFE ==` marker.
initialize_exchange_mutate(s, sender, first_asset, first_asset_amount, second_asset, second_asset_amount, exchange) ==
    insert_exchange(slash_assets(s, sender, first_asset, first_asset_amount,
                                 second_asset, second_asset_amount),
                    first_asset, second_asset, exchange)

swap_to_exact_mutate(s, sender, asset_in, asset_in_amount, asset_out, asset_swap_delta, adjusted_first_asset_id, adjusted_second_asset_id, exchange) ==
    LET s1 == slash_asset(s, sender, asset_in, asset_in_amount)
        s2 == mint_asset(s1, sender, asset_out, asset_swap_delta.amount)
        s3 == IF treasury_enabled
              THEN mint_asset(s2, DEXTreasury.dex_account, asset_in, asset_swap_delta.treasury_fee)
              ELSE s2
    IN insert_exchange(s3, adjusted_first_asset_id, adjusted_second_asset_id, exchange)

\* Phase 2 of invest_liquidity without the write of the pool: the investor
\* pays and the shares are never issued.
invest_liquidity_mutate_no_insert(s, sender, first_asset, first_asset_cost, second_asset, second_asset_cost, exchange) ==
    slash_assets(s, sender, first_asset, first_asset_cost, second_asset, second_asset_cost)

invest_liquidity_mutate(s, sender, first_asset, first_asset_cost, second_asset, second_asset_cost, exchange) ==
    insert_exchange(slash_assets(s, sender, first_asset, first_asset_cost,
                                 second_asset, second_asset_cost),
                    first_asset, second_asset, exchange)

divest_liquidity_mutate(s, sender, first_asset, first_asset_cost, second_asset, second_asset_cost, exchange) ==
    insert_exchange(mint_assets(s, sender, first_asset, first_asset_cost,
                                second_asset, second_asset_cost),
                    first_asset, second_asset, exchange)

\* initialize_exchange with the debit made before the pool is known to be
\* absent: a call rejected with ExchangeAlreadyExists would keep the debit.
initialize_exchange_debit_first(s, sender, first_asset_in, first_amount_in, second_asset_in, second_amount_in) ==
    LET adj == adjust_assets_amount_order(first_asset_in, first_amount_in,
                                          second_asset_in, second_amount_in)
        first_asset == adj[1]
        first_asset_amount == adj[2]
        second_asset == adj[3]
        second_asset_amount == adj[4]
    IN
    IF ~(first_asset_amount > 0) THEN Fail(s, "LowFirstAssetAmount") ELSE
    IF ~(second_asset_amount > 0) THEN Fail(s, "LowSecondAssetAmount") ELSE
    LET sb == ensure_sufficient_balances(s, sender, first_asset, first_asset_amount,
                                         second_asset, second_asset_amount) IN
    IF ~sb.ok THEN Fail(s, sb.err) ELSE
    LET debited == slash_assets(s, sender, first_asset, first_asset_amount,
                                second_asset, second_asset_amount)
        ne == ensure_exchange_not_exists(s, first_asset, second_asset)
    IN
    IF ~ne.ok THEN [res |-> ne.err, store |-> debited, overdrawn |-> debited.overdrawn,
                    overflowed |-> debited.overflowed] ELSE
    LET new == initialize_new(first_asset_amount, second_asset_amount, sender) IN
    IF ~new.ok THEN Fail(s, new.err) ELSE
    Done(s, insert_exchange(debited, first_asset, second_asset, new.val.exchange))

initialize_exchange(s, sender, first_asset_in, first_amount_in, second_asset_in, second_amount_in) ==
    LET adj == adjust_assets_amount_order(first_asset_in, first_amount_in,
                                          second_asset_in, second_amount_in)
        first_asset == adj[1]
        first_asset_amount == adj[2]
        second_asset == adj[3]
        second_asset_amount == adj[4]
    IN
    IF ~(first_asset_amount > 0) THEN Fail(s, "LowFirstAssetAmount") ELSE
    IF ~(second_asset_amount > 0) THEN Fail(s, "LowSecondAssetAmount") ELSE
    LET ne == ensure_exchange_not_exists(s, first_asset, second_asset) IN
    IF ~ne.ok THEN Fail(s, ne.err) ELSE
    LET la == ensure_launch(exchanges(s, first_asset, second_asset)) IN
    IF ~la.ok THEN Fail(s, la.err) ELSE
    LET sb == ensure_sufficient_balances(s, sender, first_asset, first_asset_amount,
                                         second_asset, second_asset_amount) IN
    IF ~sb.ok THEN Fail(s, sb.err) ELSE
    LET new == initialize_new(first_asset_amount, second_asset_amount, sender) IN
    IF ~new.ok THEN Fail(s, new.err) ELSE
    Done(s, initialize_exchange_mutate(s, sender, first_asset, first_asset_amount,
                                       second_asset, second_asset_amount, new.val.exchange))

\* swap_to_exact without the slippage check in its second branch, the one
\* that swaps the high asset for the low one.
swap_to_exact_unchecked_branch(s, sender, asset_in, asset_in_amount, asset_out, min_asset_out_amount, receiver) ==
    LET ve == ensure_valid_exchange(asset_in, asset_out) IN
    IF ~ve.ok THEN Fail(s, ve.err) ELSE
    LET adj == adjust_assets_order(asset_in, asset_out)
        adjusted_first_asset_id == adj[1]
        adjusted_second_asset_id == adj[2]
        adjsuted == adj[3]
        ee == ensure_exchange_exists(s, adjusted_first_asset_id, adjusted_second_asset_id)
    IN
    IF ~ee.ok THEN Fail(s, ee.err) ELSE
    LET exchange == ee.val
        sb == ensure_sufficient_balance(s, sender, asset_in, asset_in_amount)
    IN
    IF ~sb.ok THEN Fail(s, sb.err) ELSE
    LET calc == IF ~adjsuted
                THEN calculate_first_to_second_asset_swap(exchange, asset_in_amount)
                ELSE calculate_second_to_first_asset_swap(exchange, asset_in_amount)
    IN
    IF ~calc.ok THEN Fail(s, calc.err) ELSE
    LET asset_swap_delta == calc.val
        exp == IF ~adjsuted
               THEN ensure_second_asset_amount(asset_swap_delta.amount, min_asset_out_amount)
               ELSE Ok(0)
    IN
    IF ~exp.ok THEN Fail(s, exp.err) ELSE
    LET ch == ensure_can_hold_balance(s, sender, asset_out, asset_swap_delta.amount) IN
    IF ~ch.ok THEN Fail(s, ch.err) ELSE
    LET up == update_pools(exchange, asset_swap_delta.first_asset_pool,
                           asset_swap_delta.second_asset_pool) IN
    IF ~up.ok THEN Fail(s, up.err) ELSE
    Done(s, swap_to_exact_mutate(s, sender, asset_in, asset_in_amount, asset_out,
                                 asset_swap_delta, adjusted_first_asset_id,
                                 adjusted_second_asset_id, up.val))

swap_to_exact(s, sender, asset_in, asset_in_amount, asset_out, min_asset_out_amount, receiver) ==
    LET ve == ensure_valid_exchange(asset_in, asset_out) IN
    IF ~ve.ok THEN Fail(s, ve.err) ELSE
    LET adj == adjust_assets_order(asset_in, asset_out)
        adjusted_first_asset_id == adj[1]
        adjusted_second_asset_id == adj[2]
        adjsuted == adj[3]
        ee == ensure_exchange_exists(s, adjusted_first_asset_id, adjusted_second_asset_id)
    IN
    IF ~ee.ok THEN Fail(s, ee.err) ELSE
    LET exchange == ee.val
        sb == ensure_sufficient_balance(s, sender, asset_in, asset_in_amount)
    IN
    IF ~sb.ok THEN Fail(s, sb.err) ELSE
    LET calc == IF ~adjsuted
                THEN calculate_first_to_second_asset_swap(exchange, asset_in_amount)
                ELSE calculate_second_to_first_asset_swap(exchange, asset_in_amount)
    IN
    IF ~calc.ok THEN Fail(s, calc.err) ELSE
    LET asset_swap_delta == calc.val
        exp == IF ~adjsuted
               THEN ensure_second_asset_amount(asset_swap_delta.amount, min_asset_out_amount)
               ELSE ensure_first_asset_amount(asset_swap_delta.amount, min_asset_out_amount)
    IN
    IF ~exp.ok THEN Fail(s, exp.err) ELSE
    LET ch == ensure_can_hold_balance(s, sender, asset_out, asset_swap_delta.amount) IN
    IF ~ch.ok THEN Fail(s, ch.err) ELSE
    LET up == update_pools(exchange, asset_swap_delta.first_asset_pool,
                           asset_swap_delta.second_asset_pool) IN
    IF ~up.ok THEN Fail(s, up.err) ELSE
    Done(s, swap_to_exact_mutate(s, sender, asset_in, asset_in_amount, asset_out,
                                 asset_swap_delta, adjusted_first_asset_id,
                                 adjusted_second_asset_id, up.val))

invest_liquidity(s, sender, first_asset_in, second_asset_in, shares) ==
    LET adj == adjust_assets_order(first_asset_in, second_asset_in)
        first_asset == adj[1]
        second_asset == adj[2]
        ee == ensure_exchange_exists(s, first_asset, second_asset)
    IN
    IF ~ee.ok THEN Fail(s, ee.err) ELSE
    LET exchange == ee.val
        costs == calculate_costs(exchange, shares)
    IN
    IF ~costs.ok THEN Fail(s, costs.err) ELSE
    LET first_asset_cost == costs.val[1]
        second_asset_cost == costs.val[2]
        sb == ensure_sufficient_balances(s, sender, first_asset, first_asset_cost,
                                         second_asset, second_asset_cost)
    IN
    IF ~sb.ok THEN Fail(s, sb.err) ELSE
    LET inv == invest(exchange, first_asset_cost, second_asset_cost, shares, sender) IN
    IF ~inv.ok THEN Fail(s, inv.err) ELSE
    Done(s, invest_liquidity_mutate(s, sender, first_asset, first_asset_cost,
                                    second_asset, second_asset_cost, inv.val))

\* divest_liquidity without its call of ensure_burned_shares: the shares the
\* caller owns are never compared with the shares it burns.
divest_liquidity_no_share_check(s, sender, first_asset_in, second_asset_in, shares_burned, min_first_asset_received, min_second_asset_received) ==
    LET adj == adjust_assets_order(first_asset_in, second_asset_in)
        first_asset == adj[1]
        second_asset == adj[2]
        ee == ensure_exchange_exists(s, first_asset, second_asset)
    IN
    IF ~ee.ok THEN Fail(s, ee.err) ELSE
    LET exchange == ee.val
        costs == calculate_costs(exchange, shares_burned)
    IN
    IF ~costs.ok THEN Fail(s, costs.err) ELSE
    LET first_asset_cost == costs.val[1]
        second_asset_cost == costs.val[2]
        de == ensure_divest_expectations(first_asset_cost, second_asset_cost,
                                         min_first_asset_received, min_second_asset_received)
    IN
    IF ~de.ok THEN Fail(s, de.err) ELSE
    LET ch == ensure_can_hold_balances(s, sender, first_asset, first_asset_cost,
                                       second_asset, second_asset_cost) IN
    IF ~ch.ok THEN Fail(s, ch.err) ELSE
    LET dv == divest(exchange, first_asset_cost, second_asset_cost, shares_burned, sender) IN
    IF ~dv.ok THEN Fail(s, dv.err) ELSE
    Done(s, divest_liquidity_mutate(s, sender, first_asset, first_asset_cost,
                                    second_asset, second_asset_cost, dv.val))

divest_liquidity(s, sender, first_asset_in, second_asset_in, shares_burned, min_first_asset_received, min_second_asset_received) ==
    LET adj == adjust_assets_order(first_asset_in, second_asset_in)
        first_asset == adj[1]
        second_asset == adj[2]
        ee == ensure_exchange_exists(s, first_asset, second_asset)
    IN
    IF ~ee.ok THEN Fail(s, ee.err) ELSE
    LET exchange == ee.val
        bs == ensure_burned_shares(exchange, sender, shares_burned)
    IN
    IF ~bs.ok THEN Fail(s, bs.err) ELSE
    LET costs == calculate_costs(exchange, shares_burned) IN
    IF ~costs.ok THEN Fail(s, costs.err) ELSE
    LET first_asset_cost == costs.val[1]
        second_asset_cost == costs.val[2]
        de == ensure_divest_expectations(first_asset_cost, second_asset_cost,
                                         min_first_asset_received, min_second_asset_received)
    IN
    IF ~de.ok THEN Fail(s, de.err) ELSE
    LET ch == ensure_can_hold_balances(s, sender, first_asset, first_asset_cost,
                                       second_asset, second_asset_cost) IN
    IF ~ch.ok THEN Fail(s, ch.err) ELSE
    LET dv == divest(exchange, first_asset_cost, second_asset_cost, shares_burned, sender) IN
    IF ~dv.ok THEN Fail(s, dv.err) ELSE
    Done(s, divest_liquidity_mutate(s, sender, first_asset, first_asset_cost,
                                    second_asset, second_asset_cost, dv.val))

\* ------------------------------------------------------------- dex-xcmp
\* XCMPMessage::TransferToken(dest, amount) and ::TransferAsset(dest, amount, id)
TransferToken(dest, amount) ==
    [tag |-> "TransferToken", dest |-> dest, amount |-> amount, para_asset_id |-> 0]
TransferAsset(dest, amount, para_asset_id) ==
    [tag |-> "TransferAsset", dest |-> dest, amount |-> amount, para_asset_id |-> para_asset_id]

\* The outcome of a bridge call: its result, the storage of both pallets and
\* the messages sent.  A handler that panicked leaves everything as it was.
BridgeDone(s0, reg0, next0, out0, s, reg, next, out) ==
    IF s.panic
    THEN [res |-> "Panic", store |-> s0, registry |-> reg0, next_asset_id |-> next0,
          outbox |-> out0, overdrawn |-> s.overdrawn, overflowed |-> s.overflowed]
    ELSE [res |-> "Ok", store |-> s, registry |-> reg, next_asset_id |-> next,
          outbox |-> out, overdrawn |-> s.overdrawn, overflowed |-> s.overflowed]
BridgeFail(s0, reg0, next0, out0, e) ==
    [res |-> e, store |-> s0, registry |-> reg0, next_asset_id |-> next0,
     outbox |-> out0, overdrawn |-> s0.overdrawn, overflowed |-> s0.overflowed]

ensure_asset_id_exists_any(reg, para_id, para_asset_id) ==
    Ok(0)

\* ensure_asset_id_exists: the internal id of a registered foreign asset.
ensure_asset_id_exists(reg, para_id, para_asset_id) ==
    IF <<para_id, para_asset_id>> \in DOMAIN reg THEN Ok(reg[<<para_id, para_asset_id>>])
    ELSE Err("AssetIdDoesNotExist")

\* handle_xcmp_message that registers a new foreign asset and leaves
\* NextAssetId as it was.
handle_xcmp_message_no_advance(s, reg, next, out, src, msg) ==
    LET registered == msg.tag = "TransferAsset" /\ <<src, msg.para_asset_id>> \in DOMAIN reg
        check == IF msg.tag = "TransferToken"
                 THEN ensure_can_hold_balance(s, msg.dest, MainNetworkCurrency, msg.amount)
                 ELSE IF registered
                 THEN ensure_can_hold_balance(s, msg.dest,
                          ParachainAsset(reg[<<src, msg.para_asset_id>>]), msg.amount)
                 ELSE Ok(0)
    IN
    IF ~check.ok THEN BridgeDone(s, reg, next, out, [s EXCEPT !.panic = TRUE], reg, next, out)
    ELSE IF msg.tag = "TransferToken"
    THEN BridgeDone(s, reg, next, out,
                    mint_asset(s, msg.dest, MainNetworkCurrency, msg.amount), reg, next, out)
    ELSE IF registered
    THEN BridgeDone(s, reg, next, out,
                    mint_asset(s, msg.dest, ParachainAsset(reg[<<src, msg.para_asset_id>>]),
                               msg.amount),
                    reg, next, out)
    ELSE BridgeDone(s, reg, next, out,
                    mint_asset(s, msg.dest, ParachainAsset(next), msg.amount),
                    [k \in DOMAIN reg \cup {<<src, msg.para_asset_id>>} |->
                        IF k = <<src, msg.para_asset_id>> THEN next ELSE reg[k]],
                    next, out)

\* XCMPMessageHandler::handle_xcmp_message.  KSMAssetId::get() is the native
\* currency and an internal asset id stands for ParachainAsset(id).  The
\* checks are made with .expect("Should not fail!"): a failed check panics.
handle_xcmp_message(s, reg, next, out, src, msg) ==
    LET registered == msg.tag = "TransferAsset" /\ <<src, msg.para_asset_id>> \in DOMAIN reg
        check == IF msg.tag = "TransferToken"
                 THEN ensure_can_hold_balance(s, msg.dest, MainNetworkCurrency, msg.amount)
                 ELSE IF registered
                 THEN ensure_can_hold_balance(s, msg.dest,
                          ParachainAsset(reg[<<src, msg.para_asset_id>>]), msg.amount)
                 ELSE Ok(0)
    IN
    IF ~check.ok THEN BridgeDone(s, reg, next, out, [s EXCEPT !.panic = TRUE], reg, next, out)
    ELSE IF msg.tag = "TransferToken"
    THEN BridgeDone(s, reg, next, out,
                    mint_asset(s, msg.dest, MainNetworkCurrency, msg.amount), reg, next, out)
    ELSE IF registered
    THEN BridgeDone(s, reg, next, out,
                    mint_asset(s, msg.dest, ParachainAsset(reg[<<src, msg.para_asset_id>>]),
                               msg.amount),
                    reg, next, out)
    ELSE BridgeDone(s, reg, next, out,
                    mint_asset(s, msg.dest, ParachainAsset(next), msg.amount),
                    [k \in DOMAIN reg \cup {<<src, msg.para_asset_id>>} |->
                        IF k = <<src, msg.para_asset_id>> THEN next ELSE reg[k]],
                    next + 1, out)

\* transfer_asset_balance_to_parachain_chain
transfer_asset_balance_to_parachain_chain(s, reg, next, out, who, para_id, dest, para_asset_id, amount) ==
    LET id == ensure_asset_id_exists(reg, para_id, para_asset_id) IN
    IF ~id.ok THEN BridgeFail(s, reg, next, out, id.err) ELSE
    LET sb == ensure_sufficient_balance(s, who, ParachainAsset(id.val), amount) IN
    IF ~sb.ok THEN BridgeFail(s, reg, next, out, sb.err) ELSE
    BridgeDone(s, reg, next, out,
               slash_asset(s, who, ParachainAsset(id.val), amount), reg, next,
               Append(out, <<para_id, TransferAsset(dest, amount, para_asset_id)>>))

\* ------------------------------------------------------ state machine
\* The storage the next call starts from.
Cur == Store(Exchanges, AssetBalances, FreeBalance)

\* Dispatch a call: `last` records the call, its arguments and its result.  A
\* call that failed or panicked left the storage as it was, so the calls that
\* can follow it are those that can follow the state before it: only committed
\* calls are followed, and each action takes part for `budget` of them.
Commit(op, args, r) ==
    /\ last.res = "Ok"
    /\ Exchanges' = r.store.Exchanges
    /\ AssetBalances' = r.store.AssetBalances
    /\ FreeBalance' = r.store.FreeBalance
    /\ last' = [op |-> op, args |-> args, res |-> r.res, overdrawn |-> r.overdrawn,
                overflowed |-> r.overflowed]
    /\ calls' = IF r.res = "Ok" THEN calls + 1 ELSE calls
    /\ UNCHANGED <<DEXTreasury, FeeRate, overflow_checks, bridge>>

\* The configured NextAssetId: the first id free after the genesis assets.
FirstBridgedAssetId == 3

\* Genesis: no pool; every endowed account holds InitialBalance of every
\* configured asset (add_extra_genesis) and of the native currency; the
\* registry of foreign assets is empty and no message has been sent.  The
\* treasury account holds treasury_holding of bridged asset 1: what inbound
\* bridge transfers (dex-xcmp handle_xcmp_message, which credits any amount
\* the destination can hold) have paid to it before the first call.
Genesis(treasury_holding) ==
    /\ Exchanges = [k \in Assets \X Assets |-> EmptyExchange]
    /\ AssetBalances =
          [k \in (Accounts \X AssetIds)
                 \cup (IF treasury_holding > 0 THEN {<<DexAccount, 1>>} ELSE {}) |->
              IF k[1] = DexAccount THEN treasury_holding ELSE InitialBalance]
    /\ FreeBalance = [a \in AllAccounts |-> IF a \in Accounts THEN InitialBalance ELSE 0]
    /\ last = [op |-> "genesis", args |-> <<>>, res |-> "Ok", overdrawn |-> FALSE,
               overflowed |-> FALSE]
    /\ calls = 0
    /\ AssetIdByParaAssetId = [k \in {} |-> 0]
    /\ NextAssetId = FirstBridgedAssetId
    /\ outbox = <<>>

Treasury(rate) ==
    [dex_account |-> DexAccount,
     treasury_fee_rate_nominator |-> rate[1],
     treasury_fee_rate_denominator |-> rate[2]]

\* Every pair of asset arguments, and the pairs of the native currency with
\* the first bridged asset.
AllPairs == Assets \X Assets
TradePairs == {<<MainNetworkCurrency, ParachainAsset(1)>>, <<ParachainAsset(1), MainNetworkCurrency>>}

InitializeExchange(pairs, budget) ==
    /\ calls < budget
    /\ \E sender \in Accounts, p \in pairs, x1 \in Amounts, x2 \in Amounts :
          Commit("initialize_exchange", <<sender, p[1], x1, p[2], x2>>,
                 initialize_exchange(Cur, sender, p[1], x1, p[2], x2))

SwapToExact(pairs, budget) ==
    /\ calls < budget
    /\ \E sender \in Accounts, p \in pairs, x \in Amounts, m \in Mins, receiver \in Accounts :
          Commit("swap_to_exact", <<sender, p[1], x, p[2], m, receiver>>,
                 swap_to_exact(Cur, sender, p[1], x, p[2], m, receiver))

InvestLiquidity(pairs, budget) ==
    /\ calls < budget
    /\ \E sender \in Accounts, p \in pairs, sh \in Amounts :
          Commit("invest_liquidity", <<sender, p[1], p[2], sh>>,
                 invest_liquidity(Cur, sender, p[1], p[2], sh))

DivestLiquidity(pairs, budget) ==
    /\ calls < budget
    /\ \E sender \in Accounts, p \in pairs, sh \in Amounts, m1 \in Mins, m2 \in Mins :
          Commit("divest_liquidity", <<sender, p[1], p[2], sh, m1, m2>>,
                 divest_liquidity(Cur, sender, p[1], p[2], sh, m1, m2))

\* Spec: every pair of asset arguments (degenerate pairs and both orders
\* included), one fee setting, both build profiles.
Init ==
    /\ Genesis(0)
    /\ DEXTreasury = Treasury(<<1, 1>>)
    /\ FeeRate = <<1, 2>>
    /\ overflow_checks \in BOOLEAN

Next ==
    \/ InitializeExchange(AllPairs, MaxCalls)
    \/ SwapToExact(AllPairs, MaxCalls)
    \/ InvestLiquidity(AllPairs, MaxCalls)
    \/ DivestLiquidity(AllPairs, MaxCalls)

Spec == Init /\ [][Next]_vars

\* SpecTrade: one pool, native currency against bridged asset 1, in both
\* argument orders, under every fee and treasury setting and in both build
\* profiles, with a treasury account that holds nothing of the bridged asset
\* or as much of it as the balance type can hold.
TreasuryHoldings == {0, MaxBalance}

InitTrade ==
    /\ \E h \in TreasuryHoldings : Genesis(h)
    /\ \E t \in TreasuryRates : DEXTreasury = Treasury(t)
    /\ FeeRate \in FeeRates
    /\ overflow_checks \in BOOLEAN

NextTrade ==
    \/ InitializeExchange(TradePairs, MaxTradeCalls)
    \/ SwapToExact(TradePairs, MaxTradeCalls)
    \/ InvestLiquidity(TradePairs, MaxTradeCalls)
    \/ DivestLiquidity(TradePairs, MaxTradeCalls)

SpecTrade == InitTrade /\ [][NextTrade]_vars

\* SpecOrder: the two ordering functions applied to every pair of assets.
OrderAssets == {MainNetworkCurrency} \cup {ParachainAsset(i) : i \in 0..MaxOrderId}

InitOrder ==
    /\ Genesis(0)
    /\ DEXTreasury = Treasury(<<0, 0>>)
    /\ FeeRate = <<1, 2>>
    /\ overflow_checks = TRUE

AdjustAssetsOrder ==
    /\ \E a \in OrderAssets, b \in OrderAssets :
          last' = [op |-> "adjust_assets_order", args |-> <<a, b>>,
                   res |-> adjust_assets_order(a, b), overdrawn |-> FALSE,
                   overflowed |-> FALSE]
    /\ UNCHANGED <<Exchanges, AssetBalances, FreeBalance, DEXTreasury, FeeRate,
                   overflow_checks, calls, bridge>>

AdjustAssetsAmountOrder ==
    /\ \E a \in OrderAssets, b \in OrderAssets, x \in {1, 2}, y \in {1, 2} :
          last' = [op |-> "adjust_assets_amount_order", args |-> <<a, x, b, y>>,
                   res |-> adjust_assets_amount_order(a, x, b, y), overdrawn |-> FALSE,
                   overflowed |-> FALSE]
    /\ UNCHANGED <<Exchanges, AssetBalances, FreeBalance, DEXTreasury, FeeRate,
                   overflow_checks, calls, bridge>>

NextOrder == AdjustAssetsOrder \/ AdjustAssetsAmountOrder

SpecOrder == InitOrder /\ [][NextOrder]_vars

\* SpecBridge: the bridge pallet on its own.  Two source chains send
\* TransferToken and TransferAsset messages for a foreign asset id (the same
\* id names a different asset on each chain), and accounts send registered
\* assets back.
MaxBridgeCalls == 3
ParaIds == {100, 200}
ForeignAssetIds == {7}
BridgeAmounts == {0, 1, MaxBalance}

CommitBridge(op, args, r) ==
    /\ last.res = "Ok"
    /\ AssetBalances' = r.store.AssetBalances
    /\ FreeBalance' = r.store.FreeBalance
    /\ AssetIdByParaAssetId' = r.registry
    /\ NextAssetId' = r.next_asset_id
    /\ outbox' = r.outbox
    /\ last' = [op |-> op, args |-> args, res |-> r.res, overdrawn |-> r.overdrawn,
                overflowed |-> r.overflowed]
    /\ calls' = IF r.res = "Ok" THEN calls + 1 ELSE calls
    /\ UNCHANGED <<Exchanges, DEXTreasury, FeeRate, overflow_checks>>

HandleXcmpMessage ==
    /\ calls < MaxBridgeCalls
    /\ \E src \in ParaIds, dest \in Accounts, amount \in BridgeAmounts :
          \E msg \in {TransferToken(dest, amount)}
                        \cup {TransferAsset(dest, amount, f) : f \in ForeignAssetIds} :
              CommitBridge("handle_xcmp_message", <<src, msg>>,
                           handle_xcmp_message(Cur, AssetIdByParaAssetId, NextAssetId,
                                               outbox, src, msg))

TransferAssetBalanceToParachainChain ==
    /\ calls < MaxBridgeCalls
    /\ \E who \in Accounts, para_id \in ParaIds, f \in ForeignAssetIds, amount \in BridgeAmounts :
          CommitBridge("transfer_asset_balance_to_parachain_chain",
                       <<who, para_id, who, f, amount>>,
                       transfer_asset_balance_to_parachain_chain(
                           Cur, AssetIdByParaAssetId, NextAssetId, outbox,
                           who, para_id, who, f, amount))

InitBridge ==
    /\ Genesis(0)
    /\ DEXTreasury = Treasury(<<0, 0>>)
    /\ FeeRate = <<1, 2>>
    /\ overflow_checks \in BOOLEAN

NextBridge == HandleXcmpMessage \/ TransferAssetBalanceToParachainChain

SpecBridge == InitBridge /\ [][NextBridge]_vars

\* ------------------------------------------------------------ properties
Dispatchables ==
    {"initialize_exchange", "swap_to_exact", "invest_liquidity", "divest_liquidity"}

\* What `who` holds of `asset` in the ledger ab and the native balances fb.
Held(ab, fb, who, asset) ==
    IF IsMain(asset) THEN fb[who]
    ELSE IF <<who, asset.id>> \in DOMAIN ab THEN ab[<<who, asset.id>>] ELSE 0

\* C1: a call of initialize_exchange, swap_to_exact, invest_liquidity or
\* divest_liquidity that returns an error leaves the pool registry, the
\* bridged-asset ledger, the native balances and the treasury configuration
\* exactly as they were before the call.
FailedCallMutatesNothing ==
    [][(last'.op \in Dispatchables /\ last'.res \notin {"Ok", "Panic"})
         => UNCHANGED storage]_vars

\* A swap rejected by its last check but one, the slippage check.
FailedCallWitness ==
    /\ last.op = "swap_to_exact"
    /\ last.res = "SecondAssetAmountBelowExpectation"

\* C2: no debit ever exceeds the balance it is taken from (no ledger entry or
\* native balance goes below zero); a call that would overdraw fails instead,
\* also when both asset arguments name the same asset.
NoDebitUnderflows == ~last.overdrawn

PoolProduct(ex) == ex.first_asset_pool * ex.second_asset_pool

\* C3: every successful swap_to_exact, in either direction and under every
\* fee and treasury setting, leaves the product of the pool's reserves
\* greater than or equal to what it was before the swap.
SwapNeverLowersProduct ==
    [][(last'.op = "swap_to_exact" /\ last'.res = "Ok")
         => \A k \in DOMAIN Exchanges :
                PoolProduct(Exchanges'[k]) >= PoolProduct(Exchanges[k])]_vars

\* A committed swap of 2 units of the bridged asset (the high-to-low
\* direction) that paid out, with a treasury that takes its fee.
SwapProductWitness ==
    /\ last.op = "swap_to_exact" /\ last.res = "Ok"
    /\ ~IsMain(last.args[2]) /\ last.args[3] = 2
    /\ treasury_enabled
    /\ Exchanges[<<MainNetworkCurrency, ParachainAsset(1)>>].first_asset_pool = 1

\* C4: in every reachable state every stored pool has invariant =
\* reserve_low * reserve_high, and a pool with invariant > 0 has both
\* reserves and total_shares greater than zero.
PoolsWellFormed ==
    \A k \in DOMAIN Exchanges :
        LET ex == Exchanges[k] IN
        /\ ex.invariant = ex.first_asset_pool * ex.second_asset_pool
        /\ ex.invariant > 0 =>
              /\ ex.first_asset_pool > 0
              /\ ex.second_asset_pool > 0
              /\ ex.total_shares > 0

\* A pool that is still active after a committed swap that moved its reserves.
PoolsWellFormedWitness ==
    /\ last.op = "swap_to_exact" /\ last.res = "Ok" /\ last.args[3] = 2
    /\ \E k \in DOMAIN Exchanges :
          /\ Exchanges[k].invariant > 0
          /\ Exchanges[k].first_asset_pool # Exchanges[k].second_asset_pool

RECURSIVE SumShares(_, _)
SumShares(shares, owners) ==
    IF owners = {} THEN 0
    ELSE LET a == CHOOSE x \in owners : TRUE
         IN  shares[a] + SumShares(shares, owners \ {a})

SharesAddUp ==
    \A k \in DOMAIN Exchanges :
        SumShares(Exchanges[k].shares, DOMAIN Exchanges[k].shares) = Exchanges[k].total_shares

\* The pool key a recorded call works on.
KeyOf(call) ==
    IF call.op = "initialize_exchange"
    THEN LET adj == adjust_assets_amount_order(call.args[2], call.args[3],
                                               call.args[4], call.args[5])
         IN  <<adj[1], adj[3]>>
    ELSE IF call.op = "swap_to_exact"
    THEN LET adj == adjust_assets_order(call.args[2], call.args[4]) IN <<adj[1], adj[2]>>
    ELSE LET adj == adjust_assets_order(call.args[2], call.args[3]) IN <<adj[1], adj[2]>>

\* The change of total_shares and of the caller's shares a committed call makes.
SharesDelta(call) ==
    IF call.op = "invest_liquidity" THEN call.args[4]
    ELSE IF call.op = "divest_liquidity" THEN 0 - call.args[4]
    ELSE 0

SharesStep ==
    (last'.op \in Dispatchables /\ last'.res = "Ok") =>
        LET old == Exchanges[KeyOf(last')]
            new == Exchanges'[KeyOf(last')]
            sender == last'.args[1]
        IN  IF last'.op = "initialize_exchange"
            THEN /\ new.total_shares > 0
                 /\ shares_of(new, sender) = new.total_shares
                 /\ \A a \in AllAccounts \ {sender} : shares_of(new, a) = 0
            ELSE /\ new.total_shares = old.total_shares + SharesDelta(last')
                 /\ shares_of(new, sender) = shares_of(old, sender) + SharesDelta(last')
                 /\ \A a \in AllAccounts \ {sender} : shares_of(new, a) = shares_of(old, a)

\* C5: in every reachable state the shares of a pool's accounts add up to its
\* total_shares; initialize credits all issued shares to the initiator,
\* invest adds the same amount to the investor's shares and to total_shares,
\* divest removes the same amount from both, and swap changes neither.
SharesConsistent == []SharesAddUp /\ [][SharesStep]_vars

\* Two accounts own shares of one pool after a committed invest.
SharesConsistentWitness ==
    /\ last.op = "invest_liquidity" /\ last.res = "Ok"
    /\ \E k \in DOMAIN Exchanges :
          /\ shares_of(Exchanges[k], "alice") > 0
          /\ shares_of(Exchanges[k], "bob") > 0

\* Section 4.3 of the specification written out for a recorded swap
\* <<sender, asset_in, amt_in, asset_out, min_out, receiver>> and the pool
\* of its pair as it stands before the call.
SwapPool(call) == Exchanges[KeyOf(call)]

ReserveIn(call) ==
    IF call.args[2] = KeyOf(call)[1] THEN SwapPool(call).first_asset_pool
    ELSE SwapPool(call).second_asset_pool

ReserveOut(call) ==
    IF call.args[2] = KeyOf(call)[1] THEN SwapPool(call).second_asset_pool
    ELSE SwapPool(call).first_asset_pool

FormulaFee(call) == (call.args[3] * FeeRate[1]) \div FeeRate[2]

FormulaNet(call) == call.args[3] - FormulaFee(call)

FormulaOut(call) ==
    (FormulaNet(call) * ReserveOut(call)) \div (ReserveIn(call) + FormulaNet(call))

FormulaTreasuryFee(call) ==
    IF DEXTreasury.treasury_fee_rate_denominator = 0 THEN 0
    ELSE (FormulaFee(call) * DEXTreasury.treasury_fee_rate_nominator)
            \div DEXTreasury.treasury_fee_rate_denominator

\* No intermediate value of the formula exceeds the balance type.
FormulaFits(call) ==
    /\ call.args[3] * FeeRate[1] <= MaxBalance
    /\ FormulaNet(call) * ReserveOut(call) <= MaxBalance
    /\ ReserveIn(call) + call.args[3] <= MaxBalance
    /\ FormulaFee(call) * DEXTreasury.treasury_fee_rate_nominator <= MaxBalance

\* A swap on an active pool that asks for more than the formula gives.
AsksTooMuch(call) ==
    /\ call.op = "swap_to_exact"
    /\ SwapPool(call).invariant > 0
    /\ call.args[5] > FormulaOut(call)

ExpectationError(call) ==
    IF call.args[4] = KeyOf(call)[1] THEN "FirstAssetAmountBelowExpectation"
    ELSE "SecondAssetAmountBelowExpectation"

\* C6 as stated: a swap_to_exact on an active pool whose min_asset_out_amount
\* is greater than the output of the swap formula fails with
\* FirstAssetAmountBelowExpectation or SecondAssetAmountBelowExpectation and
\* leaves pools, ledger and native balances unchanged.
SlippageAlwaysExpectationError ==
    [][AsksTooMuch(last') =>
          /\ last'.res \in {"FirstAssetAmountBelowExpectation",
                            "SecondAssetAmountBelowExpectation"}
          /\ UNCHANGED storage]_vars

\* C6 amended: such a swap fails and leaves pools, ledger and native balances
\* unchanged; it fails with the expectation error of the output side
\* (First... when the output is the low asset, Second... when it is the high
\* one) when the two assets differ, the sender holds asset_in_amount of the
\* input asset and no intermediate value of the formula overflows, and with
\* the error of the earlier check otherwise.
SlippageRejected ==
    [][AsksTooMuch(last') =>
          /\ last'.res \notin {"Ok", "Panic"}
          /\ UNCHANGED storage
          /\ (/\ last'.args[2] # last'.args[4]
              /\ Held(AssetBalances, FreeBalance, last'.args[1], last'.args[2]) >= last'.args[3]
              /\ FormulaFits(last'))
                => last'.res = ExpectationError(last')]_vars

\* A swap of the high asset for the low one, by a sender who holds the
\* input, rejected because it asked for 2 units and the formula gives less.
SlippageWitness ==
    /\ last.op = "swap_to_exact"
    /\ last.res = "FirstAssetAmountBelowExpectation"
    /\ last.args[3] = 2 /\ last.args[5] = 2
    /\ Held(AssetBalances, FreeBalance, last.args[1], last.args[2]) >= 2

SwapPoolAndSenderFollowFormula ==
    (last'.op = "swap_to_exact" /\ last'.res = "Ok") =>
        LET key == KeyOf(last')
            new == Exchanges'[key]
            sender == last'.args[1]
            asset_in == last'.args[2]
            asset_out == last'.args[4]
            new_in == IF asset_in = key[1] THEN new.first_asset_pool ELSE new.second_asset_pool
            new_out == IF asset_in = key[1] THEN new.second_asset_pool ELSE new.first_asset_pool
        IN  /\ new_in = ReserveIn(last') + last'.args[3] - FormulaTreasuryFee(last')
            /\ new_out = ReserveOut(last') - FormulaOut(last')
            /\ Held(AssetBalances', FreeBalance', sender, asset_in)
                  = Held(AssetBalances, FreeBalance, sender, asset_in) - last'.args[3]
            /\ Held(AssetBalances', FreeBalance', sender, asset_out)
                  = Held(AssetBalances, FreeBalance, sender, asset_out) + FormulaOut(last')

SwapTreasuryFollowsFormula ==
    (last'.op = "swap_to_exact" /\ last'.res = "Ok") =>
        Held(AssetBalances', FreeBalance', DEXTreasury.dex_account, last'.args[2])
            = Held(AssetBalances, FreeBalance, DEXTreasury.dex_account, last'.args[2])
                + FormulaTreasuryFee(last')

\* C7: a successful swap_to_exact of amt_in matches section 4.3 exactly: the
\* input reserve becomes reserve_in + amt_in - treasury_fee, the output
\* reserve reserve_out - amt_out, the sender is debited amt_in of the input
\* asset and credited amt_out of the output asset, and the treasury account
\* is credited treasury_fee of the input asset, in both directions.
SwapMatchesFormula ==
    [][SwapPoolAndSenderFollowFormula /\ SwapTreasuryFollowsFormula]_vars

\* The part of C7 about the pool and the sender, which holds on its own.
SwapMatchesFormulaButTreasury == [][SwapPoolAndSenderFollowFormula]_vars

\* The asset ordering: the native currency is below every bridged asset and
\* bridged assets are ordered by id.
AssetLess(a, b) ==
    \/ IsMain(a) /\ ~IsMain(b)
    \/ ~IsMain(a) /\ ~IsMain(b) /\ a.id < b.id

\* A recorded initialize_exchange <<sender, a, x, b, y>> in canonical form.
InitLow(call) == IF AssetLess(call.args[4], call.args[2]) THEN call.args[4] ELSE call.args[2]
InitHigh(call) == IF AssetLess(call.args[4], call.args[2]) THEN call.args[2] ELSE call.args[4]
InitAmtLow(call) == IF AssetLess(call.args[4], call.args[2]) THEN call.args[5] ELSE call.args[3]
InitAmtHigh(call) == IF AssetLess(call.args[4], call.args[2]) THEN call.args[3] ELSE call.args[5]

InitializeSetsPool ==
    (last'.op = "initialize_exchange" /\ last'.res = "Ok") =>
        LET new == Exchanges'[<<InitLow(last'), InitHigh(last')>>]
            sender == last'.args[1]
        IN  /\ Exchanges[<<InitLow(last'), InitHigh(last')>>].invariant = 0
            /\ InitAmtLow(last') > 0 /\ InitAmtHigh(last') > 0
            /\ new.first_asset_pool = InitAmtLow(last')
            /\ new.second_asset_pool = InitAmtHigh(last')
            /\ new.invariant = InitAmtLow(last') * InitAmtHigh(last')
            /\ new.total_shares = InitAmtLow(last')
            /\ shares_of(new, sender) = InitAmtLow(last')
            /\ \A a \in AllAccounts \ {sender} : shares_of(new, a) = 0

InitializeDebitsBoth ==
    (last'.op = "initialize_exchange" /\ last'.res = "Ok") =>
        LET sender == last'.args[1] IN
        /\ Held(AssetBalances', FreeBalance', sender, InitLow(last'))
              = Held(AssetBalances, FreeBalance, sender, InitLow(last')) - InitAmtLow(last')
        /\ Held(AssetBalances', FreeBalance', sender, InitHigh(last'))
              = Held(AssetBalances, FreeBalance, sender, InitHigh(last')) - InitAmtHigh(last')

\* C8: a successful initialize_exchange with canonical amounts (amt_low,
\* amt_high) leaves the pool with reserves amt_low and amt_high, invariant
\* amt_low * amt_high and total_shares amt_low, all shares owned by the
\* initiator, and debits the initiator exactly amt_low of the low asset and
\* amt_high of the high asset.
InitializeMatchesAmounts == [][InitializeSetsPool /\ InitializeDebitsBoth]_vars

\* The part of C8 about the pool, which holds for every pair; and all of C8
\* for the calls that name two different assets.
InitializeSetsPoolAlways == [][InitializeSetsPool]_vars
InitializeMatchesAmountsOfTwoAssets ==
    [][(last'.op = "initialize_exchange" /\ last'.args[2] # last'.args[4])
          => InitializeSetsPool /\ InitializeDebitsBoth]_vars

\* What adjust_assets_order returns for the recorded arguments in the other
\* order.
Reversed(call) == adjust_assets_order(call.args[2], call.args[1])

OrderingFacts(call) ==
    /\ {call.res[1], call.res[2]} = {call.args[1], call.args[2]}
    /\ call.res[3] = (call.res[1] # call.args[1])
    /\ ~AssetLess(call.res[2], call.res[1])
    /\ call.res[1] = Reversed(call)[1]
    /\ call.res[2] = Reversed(call)[2]

\* C9 as stated: for all assets a and b, adjust_assets_order(a, b) and
\* adjust_assets_order(b, a) return the same (low, high) and opposite
\* swapped flags, with the native currency low and bridged assets ordered by
\* id.
OrderOppositeFlagsForAll ==
    last.op = "adjust_assets_order" =>
        /\ OrderingFacts(last)
        /\ last.res[3] # Reversed(last)[3]

\* C9 amended: for all assets a and b the two calls return the same (low,
\* high), a reordering of the arguments with the native currency low and
\* bridged assets ordered by id; the swapped flags are opposite when a and b
\* differ, and both false when a = b.
OrderCanonical ==
    last.op = "adjust_assets_order" =>
        /\ OrderingFacts(last)
        /\ last.args[1] # last.args[2] => last.res[3] # Reversed(last)[3]
        /\ last.args[1] = last.args[2] => ~last.res[3] /\ ~Reversed(last)[3]

\* Two bridged assets passed with the larger id first.
OrderCanonicalWitness ==
    /\ last.op = "adjust_assets_order"
    /\ ~IsMain(last.args[1]) /\ ~IsMain(last.args[2])
    /\ last.args[1].id > last.args[2].id
    /\ last.res[3]

\* C10: every pool with invariant > 0 is stored under a key (low, high) with
\* low strictly below high in the asset ordering, so no pool pairs an asset
\* with itself.
ActivePoolKeysOrdered ==
    \A k \in DOMAIN Exchanges : Exchanges[k].invariant > 0 => AssetLess(k[1], k[2])

\* C11: a call that passed every Phase 1 check completes Phase 2 without
\* arithmetic failure: no write below the `== MUTATION SAFE ==` marker panics,
\* debits an account more than it holds or credits an account more than the
\* balance type can hold; the treasury-fee credit of swap_to_exact and the
\* two payouts of divest_liquidity included.
PhaseTwoInfallible ==
    last.op \in Dispatchables =>
        /\ last.res # "Panic"
        /\ ~last.overdrawn
        /\ ~last.overflowed

\* What `who` holds of `asset` in the storage s.
HeldIn(s, who, asset) == Held(s.AssetBalances, s.FreeBalance, who, asset)

\* The storage a committed call leaves, as the next call finds it.
After(r) == Store(r.store.Exchanges, r.store.AssetBalances, r.store.FreeBalance)

\* invest_liquidity of `shares` by `sender` in the current state, followed at
\* once by divest_liquidity of the same shares by the same account.
RoundTripInvest(sender, a, b, shares) == invest_liquidity(Cur, sender, a, b, shares)
RoundTripDivest(sender, a, b, shares) ==
    divest_liquidity(After(RoundTripInvest(sender, a, b, shares)), sender, a, b, shares, 0, 0)

RoundTripCommitted(sender, a, b, shares) ==
    /\ RoundTripInvest(sender, a, b, shares).res = "Ok"
    /\ RoundTripDivest(sender, a, b, shares).res = "Ok"

RoundTripFavorsPool(sender, a, b, shares) ==
    RoundTripCommitted(sender, a, b, shares) =>
        LET key == <<adjust_assets_order(a, b)[1], adjust_assets_order(a, b)[2]>>
            old == Exchanges[key]
            new == RoundTripDivest(sender, a, b, shares).store.Exchanges[key]
        IN  /\ \A x \in {a, b} :
                  HeldIn(RoundTripDivest(sender, a, b, shares).store, sender, x)
                     <= HeldIn(Cur, sender, x)
            /\ new.total_shares = old.total_shares
            /\ new.first_asset_pool >= old.first_asset_pool
            /\ new.second_asset_pool >= old.second_asset_pool

\* C12: an account that invests `shares` in an active pool and at once divests
\* the same shares receives of each asset at most what it deposited (it ends
\* with no more of either asset than it started with); total_shares is back
\* at its value before the invest and neither reserve is below its value
\* before the invest.
RoundTripNeverGains ==
    \A sender \in Accounts, p \in AllPairs, shares \in Amounts :
        RoundTripFavorsPool(sender, p[1], p[2], shares)

\* C12 for the pools of two different assets.
RoundTripNeverGainsOfTwoAssets ==
    \A sender \in Accounts, p \in AllPairs, shares \in Amounts :
        p[1] # p[2] => RoundTripFavorsPool(sender, p[1], p[2], shares)

\* shares * reserve / total_shares rounded up and rounded down.
CostRoundedUp(shares, reserve, total_shares) ==
    (shares * reserve + total_shares - 1) \div total_shares
CostRoundedDown(shares, reserve, total_shares) == (shares * reserve) \div total_shares

InvestChargesRoundedUp ==
    (last'.op = "invest_liquidity" /\ last'.res = "Ok") =>
        LET old == Exchanges[KeyOf(last')]
            new == Exchanges'[KeyOf(last')]
            shares == last'.args[4]
        IN  /\ new.first_asset_pool - old.first_asset_pool
                  = CostRoundedUp(shares, old.first_asset_pool, old.total_shares)
            /\ new.second_asset_pool - old.second_asset_pool
                  = CostRoundedUp(shares, old.second_asset_pool, old.total_shares)

InvestKeepsBacking ==
    (last'.op = "invest_liquidity" /\ last'.res = "Ok") =>
        LET old == Exchanges[KeyOf(last')]
            new == Exchanges'[KeyOf(last')]
        IN  /\ new.first_asset_pool * old.total_shares
                  >= old.first_asset_pool * new.total_shares
            /\ new.second_asset_pool * old.total_shares
                  >= old.second_asset_pool * new.total_shares

InvestIsNeverFree ==
    (last'.op = "invest_liquidity" /\ last'.res = "Ok" /\ last'.args[4] > 0) =>
        LET old == Exchanges[KeyOf(last')]
            new == Exchanges'[KeyOf(last')]
        IN  /\ new.first_asset_pool > old.first_asset_pool
            /\ new.second_asset_pool > old.second_asset_pool

InvestChargesRoundedDown ==
    [][(last'.op = "invest_liquidity" /\ last'.res = "Ok") =>
          LET old == Exchanges[KeyOf(last')]
              new == Exchanges'[KeyOf(last')]
              shares == last'.args[4]
          IN  /\ new.first_asset_pool - old.first_asset_pool
                    = CostRoundedDown(shares, old.first_asset_pool, old.total_shares)
              /\ new.second_asset_pool - old.second_asset_pool
                    = CostRoundedDown(shares, old.second_asset_pool, old.total_shares)]_vars

FullyDivested ==
    /\ last.op = "divest_liquidity" /\ last.res = "Ok"
    /\ Exchanges[KeyOf(last)].total_shares = 0

\* What a divest credits the caller of asset x when it pays out (low, high).
PaidOf(x, key, low, high) ==
    (IF x = key[1] THEN low ELSE 0) + (IF x = key[2] THEN high ELSE 0)

\* A divest that burns the last shares pays the caller all that is left of
\* both reserves and stores the uninitialized pool.
LastDivestPaysReserves ==
    (last'.op = "divest_liquidity" /\ last'.res = "Ok"
        /\ Exchanges'[KeyOf(last')].total_shares = 0) =>
        LET key == KeyOf(last')
            old == Exchanges[key]
            sender == last'.args[1]
        IN  /\ Exchanges'[key] = EmptyExchange
            /\ \A x \in {key[1], key[2]} :
                  Held(AssetBalances', FreeBalance', sender, x)
                     = Held(AssetBalances, FreeBalance, sender, x)
                          + PaidOf(x, key, old.first_asset_pool, old.second_asset_pool)

\* On the pair <<a, b>> of a pool in the uninitialized state every swap,
\* invest and divest is refused with ExchangeNotExists, and an initialize
\* with positive amounts the caller holds succeeds.
ClosedPoolCanRestart(a, b) ==
    /\ \A sender \in Accounts, x \in Amounts, m \in Mins :
          /\ swap_to_exact(Cur, sender, a, x, b, m, sender).res = "ExchangeNotExists"
          /\ swap_to_exact(Cur, sender, b, x, a, m, sender).res = "ExchangeNotExists"
          /\ invest_liquidity(Cur, sender, a, b, x).res = "ExchangeNotExists"
          /\ divest_liquidity(Cur, sender, a, b, x, m, m).res = "ExchangeNotExists"
    /\ \A sender \in Accounts, x \in Amounts \ {0}, y \in Amounts \ {0} :
          (HeldIn(Cur, sender, a) >= x /\ HeldIn(Cur, sender, b) >= y)
              => initialize_exchange(Cur, sender, a, x, b, y).res = "Ok"

ClosedPoolRestarts ==
    FullyDivested =>
        /\ Exchanges[KeyOf(last)] = EmptyExchange
        /\ ClosedPoolCanRestart(last.args[2], last.args[3])

\* C15: when all outstanding shares of a pool are divested the pool becomes
\* the uninitialized one (reserves, total_shares and invariant all zero) and
\* the divesting account receives all that was left of the reserves; from
\* that state swap, invest and divest on the pair fail with ExchangeNotExists
\* and a new initialize_exchange for the pair succeeds.
FullDivestClosesPool == []ClosedPoolRestarts /\ [][LastDivestPaysReserves]_vars

\* C15 for the pools of two different assets.
FullDivestClosesPoolOfTwoAssets ==
    /\ [](last.op = "divest_liquidity" /\ last.args[2] # last.args[3] => ClosedPoolRestarts)
    /\ [][LastDivestPaysReserves]_vars

\* C16 as stated: initialize_exchange on a pair whose pool has invariant > 0
\* fails with ExchangeAlreadyExists in whichever order the assets are passed;
\* swap_to_exact, invest_liquidity and divest_liquidity on a pair whose pool
\* has invariant = 0 fail with ExchangeNotExists; state is unchanged.
ExistenceErrorsForAll ==
    [][last'.op \in Dispatchables =>
          LET old == Exchanges[KeyOf(last')] IN
          /\ (last'.op = "initialize_exchange" /\ old.invariant > 0) =>
                (last'.res = "ExchangeAlreadyExists" /\ UNCHANGED storage)
          /\ (last'.op # "initialize_exchange" /\ old.invariant = 0) =>
                (last'.res = "ExchangeNotExists" /\ UNCHANGED storage)]_vars

\* C16 amended: initialize_exchange on a pair whose pool has invariant > 0
\* fails and leaves state unchanged, in whichever order the assets are
\* passed, with ExchangeAlreadyExists when both amounts are positive (with
\* LowFirstAssetAmount or LowSecondAssetAmount otherwise); swap_to_exact,
\* invest_liquidity and divest_liquidity on a pair whose pool has invariant
\* = 0 fail and leave state unchanged, with ExchangeNotExists except for a
\* swap of an asset for itself, which fails with InvalidExchange.
ExistenceErrors ==
    [][last'.op \in Dispatchables =>
          LET old == Exchanges[KeyOf(last')] IN
          /\ (last'.op = "initialize_exchange" /\ old.invariant > 0) =>
                /\ last'.res \notin {"Ok", "Panic"}
                /\ UNCHANGED storage
                /\ IF last'.args[3] > 0 /\ last'.args[5] > 0
                   THEN last'.res = "ExchangeAlreadyExists"
                   ELSE last'.res \in {"LowFirstAssetAmount", "LowSecondAssetAmount"}
          /\ (last'.op # "initialize_exchange" /\ old.invariant = 0) =>
                /\ UNCHANGED storage
                /\ IF last'.op = "swap_to_exact" /\ last'.args[2] = last'.args[4]
                   THEN last'.res = "InvalidExchange"
                   ELSE last'.res = "ExchangeNotExists"]_vars

\* A second initialize of an active pool, its assets passed high before low
\* and both amounts positive, was refused.
ExistenceErrorsWitness ==
    /\ last.op = "initialize_exchange"
    /\ last.res = "ExchangeAlreadyExists"
    /\ ~IsMain(last.args[2]) /\ IsMain(last.args[4])
    /\ last.args[3] > 0 /\ last.args[5] > 0
    /\ Exchanges[KeyOf(last)].invariant > 0

\* The recorded invest <<sender, a, b, shares>> would take total_shares, the
\* investor's shares, a reserve or the recomputed invariant of its pool
\* beyond the balance type.
InvestWouldOverflow(call) ==
    LET old == Exchanges[KeyOf(call)]
        shares == call.args[4]
        low == old.first_asset_pool + CostRoundedDown(shares, old.first_asset_pool, old.total_shares)
        high == old.second_asset_pool + CostRoundedDown(shares, old.second_asset_pool, old.total_shares)
    IN  /\ call.op = "invest_liquidity"
        /\ old.invariant > 0
        /\ \/ old.total_shares + shares > MaxBalance
           \/ shares_of(old, call.args[1]) + shares > MaxBalance
           \/ shares * old.first_asset_pool > MaxBalance
           \/ shares * old.second_asset_pool > MaxBalance
           \/ low > MaxBalance
           \/ high > MaxBalance
           \/ low * high > MaxBalance

\* Every quantity stored in the pool ex is within the balance type.
PoolWithinRange(ex) ==
    /\ ex.first_asset_pool \in 0..MaxBalance
    /\ ex.second_asset_pool \in 0..MaxBalance
    /\ ex.invariant \in 0..MaxBalance
    /\ ex.total_shares \in 0..MaxBalance
    /\ \A a \in DOMAIN ex.shares : ex.shares[a] \in 0..MaxBalance

\* C17: an invest_liquidity whose shares would make total_shares, the
\* investor's shares, a reserve or the recomputed invariant exceed the
\* maximum of the balance type fails with OverflowOccured and leaves pools,
\* ledger and native balances unchanged; no quantity an invest stores, in the
\* pool or in the ledger, wraps around.
InvestOverflowFails ==
    [][last'.op = "invest_liquidity" =>
          /\ InvestWouldOverflow(last') =>
                (last'.res = "OverflowOccured" /\ UNCHANGED storage)
          /\ PoolWithinRange(Exchanges'[KeyOf(last')])
          /\ ~last'.overdrawn /\ ~last'.overflowed]_vars

\* The part of C17 that holds: such an invest never commits (it fails with
\* OverflowOccured when the investor holds the costs, and with the error of
\* the balance check otherwise), and no pool ever stores a quantity beyond
\* the balance type.
InvestOverflowNeverCommits ==
    [][last'.op = "invest_liquidity" =>
          /\ InvestWouldOverflow(last') =>
                /\ last'.res \in {"OverflowOccured", "InsufficientKsmBalance",
                                  "InsufficientOtherAssetBalance"}
                /\ UNCHANGED storage
          /\ PoolWithinRange(Exchanges'[KeyOf(last')])]_vars

\* C18: no swap_to_exact succeeds with a computed output amount of zero,
\* whatever min_asset_out_amount the caller passes (0 included): a caller is
\* never debited a positive input amount while receiving nothing.
NoSwapPaysNothing ==
    [][(last'.op = "swap_to_exact" /\ last'.res = "Ok" /\ last'.args[3] > 0) =>
          /\ FormulaOut(last') > 0
          /\ Held(AssetBalances', FreeBalance', last'.args[1], last'.args[4])
                > Held(AssetBalances, FreeBalance, last'.args[1], last'.args[4])]_vars

\* What the slippage check does give: a swap whose output would be zero is
\* rejected whenever the caller asks for at least 1.
ZeroOutputRejectedWhenAsked ==
    [][(last'.op = "swap_to_exact" /\ last'.args[5] > 0
          /\ SwapPool(last').invariant > 0 /\ FormulaOut(last') = 0) =>
          (last'.res \notin {"Ok", "Panic"} /\ UNCHANGED storage)]_vars

\* The ledger row of (who, asset) exists in ab; the native currency has no rows.
HasRow(ab, who, asset) == ~IsMain(asset) /\ <<who, asset.id>> \in DOMAIN ab

\* C19: a successful initialize, swap, invest or divest changes no pool entry
\* but the one keyed by the canonical pair of its two asset arguments, and
\* no ledger row or native balance of an asset outside that pair.
CallTouchesOnePool ==
    [][(last'.op \in Dispatchables /\ last'.res = "Ok") =>
          LET key == KeyOf(last') IN
          /\ \A k \in DOMAIN Exchanges : k # key => Exchanges'[k] = Exchanges[k]
          /\ DOMAIN Exchanges' = DOMAIN Exchanges
          /\ \A who \in AllAccounts, x \in Assets \ {key[1], key[2]} :
                /\ Held(AssetBalances', FreeBalance', who, x)
                      = Held(AssetBalances, FreeBalance, who, x)
                /\ HasRow(AssetBalances', who, x) = HasRow(AssetBalances, who, x)]_vars

\* A second pool was opened while another pool was active, and the opening
\* call moved its pool and the caller's balances.
CallTouchesOnePoolWitness ==
    /\ last.op = "initialize_exchange" /\ last.res = "Ok"
    /\ Exchanges[KeyOf(last)].invariant > 0
    /\ \E k \in DOMAIN Exchanges : k # KeyOf(last) /\ Exchanges[k].invariant > 0

\* ---------------------------------------------------------------- C20
\* The internal ids a ledger row can carry: the genesis assets and the ids
\* the bridge hands out.
BridgedIds == AssetIds \cup (FirstBridgedAssetId .. FirstBridgedAssetId + MaxBridgeCalls)
RowOf(ab, who, id) == IF <<who, id>> \in DOMAIN ab THEN ab[<<who, id>>] ELSE 0

\* mint_asset of a bridged asset, after the ensure_can_hold_balance its
\* callers make: the row of (to, id) rises by the amount, is created at the
\* amount if it was absent, and nothing else changes.
MintAssetCredits ==
    \A to \in AllAccounts, id \in BridgedIds, amount \in BridgeAmounts :
        ensure_can_hold_balance(Cur, to, ParachainAsset(id), amount).ok =>
            LET s == mint_asset(Cur, to, ParachainAsset(id), amount) IN
            /\ ~s.panic /\ ~s.overflowed
            /\ DOMAIN s.AssetBalances = DOMAIN AssetBalances \cup {<<to, id>>}
            /\ s.AssetBalances[<<to, id>>] = RowOf(AssetBalances, to, id) + amount
            /\ \A k \in DOMAIN AssetBalances :
                  k # <<to, id>> => s.AssetBalances[k] = AssetBalances[k]
            /\ s.FreeBalance = FreeBalance
            /\ s.Exchanges = Exchanges

\* A handled TransferAsset message of a registered (source chain, foreign
\* asset id) raises the destination's row of the mapped id by the amount
\* and changes no other balance.
InboundCredits ==
    (/\ last'.op = "handle_xcmp_message" /\ last'.res = "Ok"
     /\ last'.args[2].tag = "TransferAsset"
     /\ <<last'.args[1], last'.args[2].para_asset_id>> \in DOMAIN AssetIdByParaAssetId) =>
        LET msg == last'.args[2]
            id == AssetIdByParaAssetId[<<last'.args[1], msg.para_asset_id>>]
        IN  /\ ~last'.overflowed
            /\ DOMAIN AssetBalances' = DOMAIN AssetBalances \cup {<<msg.dest, id>>}
            /\ AssetBalances'[<<msg.dest, id>>] = RowOf(AssetBalances, msg.dest, id) + msg.amount
            /\ \A k \in DOMAIN AssetBalances :
                  k # <<msg.dest, id>> => AssetBalances'[k] = AssetBalances[k]
            /\ FreeBalance' = FreeBalance

\* No call removes a ledger row: a row debited to zero stays.
RowsPersist == DOMAIN AssetBalances \subseteq DOMAIN AssetBalances'

BridgeUntouched == UNCHANGED <<AssetBalances, FreeBalance, bridge>>

\* What an outbound transfer of a registered asset that the caller holds does:
\* the caller's row of the mapped id falls by the amount (a caller without a
\* row sends 0 and gets a row at 0: AssetBalances::mutate writes the entry)
\* and one TransferAsset message for the target chain is added to those sent.
OutboundDebitsAndSends(who, para_id, dest, para_asset_id, amount) ==
    LET id == AssetIdByParaAssetId[<<para_id, para_asset_id>>] IN
    /\ last'.res = "Ok"
    /\ DOMAIN AssetBalances' = DOMAIN AssetBalances \cup {<<who, id>>}
    /\ AssetBalances'[<<who, id>>] = RowOf(AssetBalances, who, id) - amount
    /\ \A k \in DOMAIN AssetBalances : k # <<who, id>> => AssetBalances'[k] = AssetBalances[k]
    /\ FreeBalance' = FreeBalance
    /\ outbox' = Append(outbox, <<para_id, TransferAsset(dest, amount, para_asset_id)>>)
    /\ UNCHANGED <<AssetIdByParaAssetId, NextAssetId>>

OutboundStep ==
    last'.op = "transfer_asset_balance_to_parachain_chain" =>
        LET who == last'.args[1]
            para_id == last'.args[2]
            dest == last'.args[3]
            para_asset_id == last'.args[4]
            amount == last'.args[5]
            key == <<para_id, para_asset_id>>
        IN  IF key \notin DOMAIN AssetIdByParaAssetId
            THEN last'.res = "AssetIdDoesNotExist" /\ BridgeUntouched
            ELSE IF RowOf(AssetBalances, who, AssetIdByParaAssetId[key]) < amount
            THEN last'.res = "InsufficientOtherAssetBalance" /\ BridgeUntouched
            ELSE OutboundDebitsAndSends(who, para_id, dest, para_asset_id, amount)

\* C21: an outbound transfer of an unregistered (para_id, para_asset_id)
\* fails with AssetIdDoesNotExist, one above the caller's balance of the
\* mapped asset fails with an insufficient-balance error, and neither debits
\* a balance nor sends a message; a successful one debits the caller exactly
\* the amount and sends exactly one message.
OutboundTransferChecked == [][OutboundStep]_vars

\* A caller that held the mapped asset sent 1 of it out: one message is sent.
OutboundTransferWitness ==
    /\ last.op = "transfer_asset_balance_to_parachain_chain"
    /\ last.res = "Ok"
    /\ last.args[5] = 1
    /\ Len(outbox) = 1
    /\ outbox[1] = <<last.args[2], TransferAsset(last.args[3], 1, last.args[4])>>

\* Reachability of the two refusals.
OutboundUnregisteredRefused ==
    /\ last.op = "transfer_asset_balance_to_parachain_chain"
    /\ last.res = "AssetIdDoesNotExist"
OutboundInsufficientRefused ==
    /\ last.op = "transfer_asset_balance_to_parachain_chain"
    /\ last.res = "InsufficientOtherAssetBalance"
    /\ <<last.args[2], last.args[4]>> \in DOMAIN AssetIdByParaAssetId

\* ---------------------------------------------------------------- C22
\* adjust_assets_amount_order returns the assets in the order
\* adjust_assets_order gives them, each with the amount passed with it.
AmountsFollowAssets(a, x, b, y) ==
    LET r == adjust_assets_amount_order(a, x, b, y)
        o == adjust_assets_order(a, b)
    IN  /\ r[1] = o[1] /\ r[3] = o[2]
        /\ IF o[3] THEN r[1] = b /\ r[2] = y /\ r[3] = a /\ r[4] = x
                   ELSE r[1] = a /\ r[2] = x /\ r[3] = b /\ r[4] = y

\* The call just made, with its two (asset, amount) pairs passed in the other
\* order, from the state it was made in.
InitializeReversed ==
    initialize_exchange(Cur, last'.args[1], last'.args[4], last'.args[5],
                        last'.args[2], last'.args[3])

InitializeReversedAgrees ==
    (last'.op = "initialize_exchange" /\ last'.args[2] # last'.args[4]) =>
        /\ InitializeReversed.res = last'.res
        /\ InitializeReversed.store.Exchanges = Exchanges'
        /\ InitializeReversed.store.AssetBalances = AssetBalances'
        /\ InitializeReversed.store.FreeBalance = FreeBalance'
        /\ InitializeReversed.overdrawn = last'.overdrawn
        /\ AmountsFollowAssets(last'.args[2], last'.args[3], last'.args[4], last'.args[5])

\* C22: for distinct assets a, b and amounts x, y, initialize_exchange(a, x,
\* b, y) and initialize_exchange(b, y, a, x) from the same state give the
\* same result and the same post-state, and each amount stays paired with
\* its own asset.
InitializeOrderIndependent == [][InitializeReversedAgrees]_vars

\* A pool of two bridged assets was created by a call that named the higher
\* id first, with different amounts: the pool holds each asset's own amount.
InitializeReversedWitness ==
    /\ last.op = "initialize_exchange" /\ last.res = "Ok"
    /\ last.args[2] = ParachainAsset(2) /\ last.args[3] = 1
    /\ last.args[4] = ParachainAsset(1) /\ last.args[5] = 2
    /\ Exchanges[<<ParachainAsset(1), ParachainAsset(2)>>].first_asset_pool = 2
    /\ Exchanges[<<ParachainAsset(1), ParachainAsset(2)>>].second_asset_pool = 1
    /\ Exchanges[<<ParachainAsset(2), ParachainAsset(1)>>].invariant = 0

\* ---------------------------------------------------------------- C23
\* A call whose two asset arguments are the same asset.
DegenerateCall(call) == call.op \in Dispatchables /\ KeyOf(call)[1] = KeyOf(call)[2]

DegenerateStep(ops) ==
    (DegenerateCall(last') /\ last'.op \in ops) =>
        /\ last'.res = "InvalidExchange"
        /\ UNCHANGED <<Exchanges, AssetBalances, FreeBalance>>

\* C23: every public operation called with a degenerate pair (native with
\* native, or two bridged assets of equal id) fails with InvalidExchange and
\* mutates nothing: initialize_exchange, invest_liquidity and
\* divest_liquidity as well as swap_to_exact.
DegeneratePairRejected == [][DegenerateStep(Dispatchables)]_vars

\* The part that holds: swap_to_exact, which calls ensure_valid_exchange first.
DegenerateSwapRejected == [][DegenerateStep({"swap_to_exact"})]_vars

\* Each of the other three operations commits on a degenerate pair.
DegenerateCommitted(op) == DegenerateCall(last) /\ last.op = op /\ last.res = "Ok"
DegenerateInitializeCommits == DegenerateCommitted("initialize_exchange")
DegenerateInvestCommits == DegenerateCommitted("invest_liquidity")
DegenerateDivestCommits == DegenerateCommitted("divest_liquidity")

\* ---------------------------------------------------------------- C24
\* The reserves of asset x in the pools `keys` of the registry ex.
RECURSIVE ReservesOf(_, _, _)
ReservesOf(ex, keys, x) ==
    IF keys = {} THEN 0
    ELSE LET k == CHOOSE q \in keys : TRUE
         IN  (IF k[1] = x THEN ex[k].first_asset_pool ELSE 0)
             + (IF k[2] = x THEN ex[k].second_asset_pool ELSE 0)
             + ReservesOf(ex, keys \ {k}, x)

RECURSIVE HoldingsOf(_, _, _, _)
HoldingsOf(ab, fb, whos, x) ==
    IF whos = {} THEN 0
    ELSE LET w == CHOOSE q \in whos : TRUE
         IN  Held(ab, fb, w, x) + HoldingsOf(ab, fb, whos \ {w}, x)

\* All of asset x there is: every account's holding, the treasury account's
\* included, and every pool's reserve.
TotalOf(ex, ab, fb, x) == HoldingsOf(ab, fb, AllAccounts, x) + ReservesOf(ex, DOMAIN ex, x)

Conserved ==
    \A x \in Assets :
        TotalOf(Exchanges', AssetBalances', FreeBalance', x)
            = TotalOf(Exchanges, AssetBalances, FreeBalance, x)

\* C24: for every asset, the holdings of all accounts plus the reserves of
\* all pools are left unchanged by every initialize, swap, invest and
\* divest, successful or failed.
AssetsConserved == [][last'.op \in Dispatchables => Conserved]_vars

\* Conservation for the calls on two different assets in which no debit
\* exceeded a balance and no credit exceeded the maximum balance.
AssetsConservedWithinRange ==
    [][(/\ last'.op \in Dispatchables
        /\ ~DegenerateCall(last')
        /\ ~last'.overdrawn /\ ~last'.overflowed) => Conserved]_vars

\* ---------------------------------------------------------------- C25
\* What the caller of the call just made gained of `asset`.
Gained(asset) ==
    Held(AssetBalances', FreeBalance', last'.args[1], asset)
        - Held(AssetBalances, FreeBalance, last'.args[1], asset)

DivestMeetsMinimums ==
    /\ Gained(last'.args[2]) >= last'.args[5]
    /\ Gained(last'.args[3]) >= last'.args[6]

\* C25: a successful divest_liquidity pays the caller at least
\* min_first_asset_received of the asset the caller named first and at least
\* min_second_asset_received of the asset named second, in whichever order
\* the caller names the two assets.
DivestMinimumsFollowAssets ==
    [][(last'.op = "divest_liquidity" /\ last'.res = "Ok") => DivestMeetsMinimums]_vars

\* The minimums are met when the caller names the two assets in the order
\* the pool is keyed by.
DivestMinimumsInPoolOrder ==
    [][(/\ last'.op = "divest_liquidity" /\ last'.res = "Ok"
        /\ ~DegenerateCall(last')
        /\ ~adjust_assets_order(last'.args[2], last'.args[3])[3]) => DivestMeetsMinimums]_vars

\* ---------------------------------------------------------------- C26
\* What the swap just made took out of the pool's reserve of asset_out.
SwapPaidOut ==
    LET key == KeyOf(last')
        new == Exchanges'[key]
    IN  ReserveOut(last')
           - (IF last'.args[2] = key[1] THEN new.second_asset_pool ELSE new.first_asset_pool)

GainedBy(who, asset) ==
    Held(AssetBalances', FreeBalance', who, asset) - Held(AssetBalances, FreeBalance, who, asset)

SwapToOther == last'.op = "swap_to_exact" /\ last'.res = "Ok" /\ last'.args[6] # last'.args[1]

\* C26: after a successful swap_to_exact with a receiver other than the
\* sender, the receiver's balance of asset_out has risen by the output amount
\* and the sender's balance of asset_out is unchanged.
SwapPaysReceiver ==
    [][SwapToOther => /\ GainedBy(last'.args[6], last'.args[4]) = SwapPaidOut
                      /\ GainedBy(last'.args[1], last'.args[4]) = 0]_vars

\* What the code does: the output is credited to the sender, and the
\* receiver's balance of asset_out is left as it was.
SwapPaysSender ==
    [][SwapToOther => /\ GainedBy(last'.args[1], last'.args[4]) = SwapPaidOut
                      /\ GainedBy(last'.args[6], last'.args[4]) = 0]_vars

\* ---------------------------------------------------------------- C27
\* No two keys share an internal id, and every id handed out is below NextAssetId.
RegistryWellFormed ==
    /\ \A k1 \in DOMAIN AssetIdByParaAssetId, k2 \in DOMAIN AssetIdByParaAssetId :
          k1 # k2 => AssetIdByParaAssetId[k1] # AssetIdByParaAssetId[k2]
    /\ \A k \in DOMAIN AssetIdByParaAssetId : AssetIdByParaAssetId[k] < NextAssetId

\* The message just handled was the first TransferAsset of its (source
\* chain, foreign asset id).
FirstTransfer ==
    /\ last'.op = "handle_xcmp_message" /\ last'.res = "Ok"
    /\ last'.args[2].tag = "TransferAsset"
    /\ <<last'.args[1], last'.args[2].para_asset_id>> \notin DOMAIN AssetIdByParaAssetId

RegistryStep ==
    /\ \A k \in DOMAIN AssetIdByParaAssetId :
          k \in DOMAIN AssetIdByParaAssetId' /\ AssetIdByParaAssetId'[k] = AssetIdByParaAssetId[k]
    /\ NextAssetId' >= NextAssetId
    /\ IF FirstTransfer
       THEN LET key == <<last'.args[1], last'.args[2].para_asset_id>>
                dest == last'.args[2].dest
            IN  /\ DOMAIN AssetIdByParaAssetId' = DOMAIN AssetIdByParaAssetId \cup {key}
                /\ AssetIdByParaAssetId'[key] = NextAssetId
                /\ NextAssetId' = NextAssetId + 1
                /\ <<dest, NextAssetId>> \in DOMAIN AssetBalances'
                /\ AssetBalances'[<<dest, NextAssetId>>]
                      = RowOf(AssetBalances, dest, NextAssetId) + last'.args[2].amount
       ELSE UNCHANGED <<AssetIdByParaAssetId, NextAssetId>>

====
